---- MODULE Spec2Model ----
(***************************************************************************)
(* Model of scripts/i915-perf-kernelgen.py: the GUID registry load loop,   *)
(* the per-document selection loop over `set` elements and the emission    *)
(* loop over the resolved list `sets` (which is nested in the document     *)
(* loop).  Strings are TLA+ strings; an XML element is a record of its     *)
(* attributes and children; an absent XML attribute is an absent field.    *)
(* The documents are well-formed: every set has the attributes chipset,    *)
(* symbol_name and name (name only appears in the text of the warnings),   *)
(* every register has type, address and value, the last two being numbers. *)
(* The text written to the outputs is reduced to the register arrays the   *)
(* emission loop completes; the sysfs code writes no register array.       *)
(***************************************************************************)
EXTENDS Integers, Sequences, FiniteSets, TLC

\* ------------------------------------------------------------------------
\* Bounds of the model
\* ------------------------------------------------------------------------
MaxDocs == 2
MaxSets == 1
MaxGuids == 2
MaxConfigs == 3
MaxListLen == 1

BoundedSeq(S, n) == UNION {[1..k -> S] : k \in 0..n}

\* ------------------------------------------------------------------------
\* Input universe
\* ------------------------------------------------------------------------
Names == {"TestOa", "RenderBasic", "Other"}

\* str.upper() / str.lower() on the chipset identifiers of the model
upper(s) ==
    CASE s = "hsw" -> "HSW"
      [] s = "bdw" -> "BDW"
      [] OTHER -> s

lower(s) ==
    CASE s = "HSW" -> "hsw"
      [] s = "BDW" -> "bdw"
      [] OTHER -> s

\* An optional string argument (--whitelist, --blacklist): None, or a string
\* given by the set of its whitespace-separated words ("" has no words).
None == [given |-> FALSE, words |-> {}]

StringArgs == {[given |-> TRUE, words |-> w] : w \in {s \in SUBSET Names : Cardinality(s) <= MaxListLen}}

\* <register type=.. address=.. value=..>
Register(t, a, v) == [type |-> t, address |-> a, value |-> v]

\* <register_config type=..> with its <register> children
Config(t, regs) == [type |-> t, registers |-> regs]

\* <set chipset=.. symbol_name=..> with its <register_config> children
SetElement(c, n, cfgs) == [chipset |-> c, symbol_name |-> n, configs |-> cfgs]

NoElement == SetElement("", "", <<>>)

\* <guid chipset=.. id=..> without / with the config_hash attribute
GuidNoHash(c, id) == [chipset |-> c, id |-> id]

GuidElement(c, h, id) == [chipset |-> c, config_hash |-> h, id |-> id]

NoGuid == GuidNoHash("", "")

\* ------------------------------------------------------------------------
\* pylibs.oa_guid_registry.Registry (external collaborator)
\* ------------------------------------------------------------------------
RECURSIVE RegistersText(_)
RegistersText(regs) ==
    IF regs = <<>> THEN ""
    ELSE ToString(Head(regs).address) \o ":" \o ToString(Head(regs).value)
         \o RegistersText(Tail(regs))

RECURSIVE ConfigsText(_)
ConfigsText(cfgs) ==
    IF cfgs = <<>> THEN ""
    ELSE RegistersText(Head(cfgs).registers) \o ConfigsText(Tail(cfgs))

\* deterministic content hash over the registers of a set, in document order
hw_config_hash(set_el) == ConfigsText(set_el.configs)

\* key scoped by chipset
chipset_derive_hash(c, h) == c \o "-" \o h

\* ------------------------------------------------------------------------
\* State
\* ------------------------------------------------------------------------
VARIABLES
    args,         \* parsed command line: chipset, whitelist, no_whitelist, blacklist
    guids_xml,    \* the <guid> elements of the registry document, in order
    gi,           \* number of <guid> elements the load loop has processed
    guid,         \* loop variable of the load loop
    guids,        \* the registry mapping: hashing key -> id
    pc,           \* "guids" | "xml" | "set" | "emit" | "done"
    failed,       \* an assert has ended the run
    arg,          \* number of documents of args.xml opened so far
    n_set,        \* number of <set> elements processed in the open document
    set_element,  \* loop variable of the selection loop
    sets,         \* the resolved list
    mi,           \* number of entries of sets the emission loop has processed
    c,            \* register arrays written to the C output, in order
    stderr        \* number of warnings written by print_err

vars == <<args, guids_xml, gi, guid, guids, pc, failed, arg, n_set, set_element,
          sets, mi, c, stderr>>

\* ------------------------------------------------------------------------
\* Registry load
\* ------------------------------------------------------------------------
chipset == upper(args.chipset)

StoreGuidFirstWins(g, el) ==
    LET hashing_key == chipset_derive_hash(el.chipset, el.config_hash)
    IN  g @@ (hashing_key :> el.id)

\* guids[hashing_key] = guid.get('id')
StoreGuid(g, el) ==
    LET hashing_key == chipset_derive_hash(el.chipset, el.config_hash)
    IN  (hashing_key :> el.id) @@ g

LoadGuid ==
    /\ pc = "guids"
    /\ ~failed
    /\ gi < Len(guids_xml)
    /\ guid' = guids_xml[gi + 1]
    /\ gi' = gi + 1
    /\ guids' = IF "config_hash" \in DOMAIN guid' THEN StoreGuid(guids, guid') ELSE guids
    /\ UNCHANGED <<args, guids_xml, pc, failed, arg, n_set, set_element, sets, mi, c, stderr>>

\* end of the load loop; the banners are written and sets = []
EndLoad ==
    /\ pc = "guids"
    /\ ~failed
    /\ gi = Len(guids_xml)
    /\ pc' = "xml"
    /\ sets' = <<>>
    /\ UNCHANGED <<args, guids_xml, gi, guid, guids, failed, arg, n_set, set_element, mi, c, stderr>>

\* ------------------------------------------------------------------------
\* Selection loop
\* ------------------------------------------------------------------------
\* for arg in args.xml: xml = et.parse(arg)
OpenDoc ==
    /\ pc = "xml"
    /\ ~failed
    /\ arg < MaxDocs
    /\ arg' = arg + 1
    /\ n_set' = 0
    /\ pc' = "set"
    /\ UNCHANGED <<args, guids_xml, gi, guid, guids, failed, set_element, sets, mi, c, stderr>>

ChipsetAssertDropped(el) == TRUE

\* assert set_element.get('chipset') == chipset
ChipsetAssert(el) == el.chipset = chipset

\* the name the default filter keeps
DefaultName == IF chipset = "HSW" THEN "RenderBasic" ELSE "TestOa"

DefaultFilterNoHswException(set_name) == set_name = "TestOa"

\* if chipset == 'HSW': keep RenderBasic; elif: keep TestOa
DefaultFilterKeeps(set_name) == set_name = DefaultName

\* if args.whitelist: keep the names of args.whitelist.split()
WhitelistKeeps(set_name) ==
    IF args.whitelist.given /\ args.whitelist.words # {}
    THEN set_name \in args.whitelist.words
    ELSE TRUE

default_set_blacklist == {}

BlacklistIgnored == default_set_blacklist

\* args.blacklist.split() if args.blacklist else default_set_blacklist
set_blacklist ==
    IF args.blacklist.given /\ args.blacklist.words # {}
    THEN args.blacklist.words
    ELSE default_set_blacklist

\* chipset_derive_hash(chipset.lower(), hw_config_hash(set_element))
hashing_key_of(el) == chipset_derive_hash(lower(chipset), hw_config_hash(el))

\* guids[hashing_key]
GuidOf(el) == guids[hashing_key_of(el)]

\* the metric_set dictionary (perf_name and perf_name_lc only name the arrays)
metric_set_of(el) ==
    [name |-> el.symbol_name,
     set_element |-> el,
     chipset_lc |-> lower(chipset),
     guid |-> GuidOf(el),
     configs |-> el.configs]

MissAborts(el) == "abort"

\* a key that is not in guids: warning, continue
MissOutcome(el) == "no_guid"

\* what the body of the selection loop does with one <set> element
Outcome(el) ==
    IF ~ChipsetAssert(el) THEN "abort"
    ELSE IF ~DefaultFilterKeeps(el.symbol_name) THEN "filtered"
    ELSE IF ~WhitelistKeeps(el.symbol_name) THEN "filtered"
    ELSE IF el.symbol_name \in set_blacklist THEN "filtered"
    ELSE IF Len(el.configs) = 0 THEN "no_config"
    ELSE IF hashing_key_of(el) \notin DOMAIN guids THEN MissOutcome(el)
    ELSE "selected"

ProcessSet(el) ==
    /\ pc = "set"
    /\ ~failed
    /\ n_set < MaxSets
    /\ n_set' = n_set + 1
    /\ set_element' = el
    /\ LET outcome == Outcome(el)
       IN  /\ failed' = (outcome = "abort")
           /\ stderr' = IF outcome \in {"no_config", "no_guid"} THEN stderr + 1 ELSE stderr
           /\ sets' = IF outcome = "selected" THEN Append(sets, metric_set_of(el)) ELSE sets
    /\ UNCHANGED <<args, guids_xml, gi, guid, guids, pc, arg, mi, c>>

\* the document has no further <set> element: for metric_set in sets
EndSets ==
    /\ pc = "set"
    /\ ~failed
    /\ pc' = "emit"
    /\ mi' = 0
    /\ UNCHANGED <<args, guids_xml, gi, guid, guids, failed, arg, n_set, set_element, sets, c, stderr>>

\* ------------------------------------------------------------------------
\* Emission loop
\* ------------------------------------------------------------------------
\* empty = et.Element('register_config')
empty == Config("", <<>>)

OfType(configs, t) ==
    LET Is(cfg) == cfg.type = t IN SelectSeq(configs, Is)

\* the asserts of output_*_config on the type of each register
RegistersAssert(config, t) ==
    \A i \in DOMAIN config.registers : config.registers[i].type = t

RECURSIVE Entries(_)
Entries(regs) ==
    IF regs = <<>> THEN <<>>
    ELSE <<[address |-> Head(regs).address, value |-> Head(regs).value]>> \o Entries(Tail(regs))

\* one array definition written to the C output for the metric set at position idx
Array(kind, idx, config) == [array |-> kind, metric_set |-> idx, regs |-> Entries(config.registers)]

EmitNoCardinalityAsserts(ms, idx) ==
    LET mux_configs == OfType(ms.configs, "NOA")
        b0 == OfType(ms.configs, "OA")
        f0 == OfType(ms.configs, "FLEX")
        b_counter_configs == IF Len(b0) = 0 THEN <<empty>> ELSE b0
        flex_configs == IF Len(f0) = 0 THEN <<empty>> ELSE f0
        m_configs == IF Len(mux_configs) = 0 THEN <<empty>> ELSE mux_configs
        b_arr == Array("b_counter_config", idx, b_counter_configs[1])
        f_arr == Array("flex_eu_config", idx, flex_configs[1])
        m_arr == Array("mux_config", idx, m_configs[1])
    IN  [arrays |-> <<b_arr, f_arr, m_arr>>, ok |-> TRUE]

\* body of the emission loop for one metric set: the arrays completed, and
\* whether every assert held
Emit(ms, idx) ==
    LET mux_configs == OfType(ms.configs, "NOA")
        b0 == OfType(ms.configs, "OA")
        f0 == OfType(ms.configs, "FLEX")
        b_counter_configs == IF Len(b0) = 0 THEN <<empty>> ELSE b0
        flex_configs == IF Len(f0) = 0 THEN <<empty>> ELSE f0
        b_arr == Array("b_counter_config", idx, b_counter_configs[1])
        f_arr == Array("flex_eu_config", idx, flex_configs[1])
        m_arr == Array("mux_config", idx, mux_configs[1])
    IN  IF Len(b_counter_configs) # 1 \/ ~RegistersAssert(b_counter_configs[1], "OA")
        THEN [arrays |-> <<>>, ok |-> FALSE]
        ELSE IF Len(flex_configs) # 1 \/ ~RegistersAssert(flex_configs[1], "FLEX")
        THEN [arrays |-> <<b_arr>>, ok |-> FALSE]
        ELSE IF Len(mux_configs) # 1 \/ ~RegistersAssert(mux_configs[1], "NOA")
        THEN [arrays |-> <<b_arr, f_arr>>, ok |-> FALSE]
        ELSE [arrays |-> <<b_arr, f_arr, m_arr>>, ok |-> TRUE]

EmitSet ==
    /\ pc = "emit"
    /\ ~failed
    /\ mi < Len(sets)
    /\ mi' = mi + 1
    /\ c' = c \o Emit(sets[mi + 1], mi + 1).arrays
    /\ failed' = ~Emit(sets[mi + 1], mi + 1).ok
    /\ UNCHANGED <<args, guids_xml, gi, guid, guids, pc, arg, n_set, set_element, sets, stderr>>

\* the emission loop has visited every entry of sets: next document
EndEmit ==
    /\ pc = "emit"
    /\ ~failed
    /\ mi = Len(sets)
    /\ pc' = "xml"
    /\ UNCHANGED <<args, guids_xml, gi, guid, guids, failed, arg, n_set, set_element, sets, mi, c, stderr>>

\* args.xml is exhausted (it holds at least one path): the run ends normally
Finish ==
    /\ pc = "xml"
    /\ ~failed
    /\ arg >= 1
    /\ pc' = "done"
    /\ UNCHANGED <<args, guids_xml, gi, guid, guids, failed, arg, n_set, set_element, sets, mi, c, stderr>>

\* ------------------------------------------------------------------------
\* Specifications
\* ------------------------------------------------------------------------
Start(a, registry) ==
    /\ args = a
    /\ guids_xml = registry
    /\ gi = 0
    /\ guid = NoGuid
    /\ guids = <<>>
    /\ pc = "guids"
    /\ failed = FALSE
    /\ arg = 0
    /\ n_set = 0
    /\ set_element = NoElement
    /\ sets = <<>>
    /\ mi = 0
    /\ c = <<>>
    /\ stderr = 0

\* --- selection: every combination of options, a fixed registry ----------
NoaRegister(v) == Register("NOA", 1, v)

HitConfigs == <<Config("NOA", <<NoaRegister(1)>>)>>

MissConfigs == <<Config("NOA", <<NoaRegister(2)>>)>>

Arguments ==
    {[chipset |-> ch, whitelist |-> w, no_whitelist |-> nw, blacklist |-> b] :
        ch \in {"hsw", "bdw"}, w \in {None} \cup StringArgs,
        nw \in BOOLEAN, b \in {None} \cup StringArgs}

Registry ==
    <<GuidElement("bdw", hw_config_hash(SetElement("", "", HitConfigs)), "guid-bdw"),
      GuidNoHash("bdw", "guid-mdapi"),
      GuidElement("hsw", hw_config_hash(SetElement("", "", HitConfigs)), "guid-hsw")>>

SetElements ==
    {SetElement(ch, n, cfgs) :
        ch \in {"HSW", "BDW"}, n \in Names, cfgs \in {<<>>, HitConfigs, MissConfigs}}

Init == \E a \in Arguments : Start(a, Registry)

Next ==
    \/ LoadGuid
    \/ EndLoad
    \/ OpenDoc
    \/ \E el \in SetElements : ProcessSet(el)
    \/ EndSets
    \/ EmitSet
    \/ EndEmit
    \/ Finish

Spec == Init /\ [][Next]_vars

\* --- register configurations: default options, one registry entry -----
TypedConfig(t) ==
    Config(t, <<Register(t, CASE t = "NOA" -> 1 [] t = "OA" -> 2 [] OTHER -> 3, 1)>>)

RegisterConfigs ==
    BoundedSeq({TypedConfig("NOA"), TypedConfig("OA"), TypedConfig("FLEX")}, MaxConfigs)
    \cup {<<Config("NOA", <<Register("OA", 1, 1)>>)>>,
          <<TypedConfig("NOA"), Config("OA", <<Register("NOA", 2, 1)>>)>>,
          <<TypedConfig("NOA"), Config("PM", <<Register("PM", 4, 1)>>)>>,
          <<Config("NOA", <<>>)>>}

DefaultArguments ==
    [chipset |-> "bdw", whitelist |-> None, no_whitelist |-> FALSE, blacklist |-> None]

InitConfigs ==
    \E cfgs \in RegisterConfigs :
        Start(DefaultArguments,
              <<GuidElement("bdw", hw_config_hash(SetElement("", "", cfgs)), "guid-1")>>)

\* the documents hold the sets whose key the registry knows
ConfigSetElements ==
    {SetElement("BDW", "TestOa", cfgs) : cfgs \in
        {k \in RegisterConfigs : hw_config_hash(SetElement("", "", k)) = guids_xml[1].config_hash}}

NextConfigs ==
    \/ LoadGuid
    \/ EndLoad
    \/ OpenDoc
    \/ \E el \in ConfigSetElements : ProcessSet(el)
    \/ EndSets
    \/ EmitSet
    \/ EndEmit
    \/ Finish

SpecConfigs == InitConfigs /\ [][NextConfigs]_vars

\* --- registry: default options, every registry document ----------------
GuidElements ==
    {GuidElement(ch, hw_config_hash(SetElement("", "", HitConfigs)), id) :
        ch \in {"bdw", "hsw"}, id \in {"guid-1", "guid-2"}}
    \cup {GuidNoHash(ch, id) : ch \in {"bdw", "hsw"}, id \in {"guid-1", "guid-2"}}

TwoNoaConfigs == <<Config("NOA", <<NoaRegister(1)>>), Config("NOA", <<NoaRegister(2)>>)>>

RegistrySetElements == {SetElement("BDW", "TestOa", cfgs) : cfgs \in {HitConfigs, TwoNoaConfigs}}

InitRegistry == \E registry \in BoundedSeq(GuidElements, MaxGuids) : Start(DefaultArguments, registry)

NextRegistry ==
    \/ LoadGuid
    \/ EndLoad
    \/ OpenDoc
    \/ \E el \in RegistrySetElements : ProcessSet(el)
    \/ EndSets
    \/ EmitSet
    \/ EndEmit
    \/ Finish

SpecRegistry == InitRegistry /\ [][NextRegistry]_vars

\* ------------------------------------------------------------------------
\* Properties
\* ------------------------------------------------------------------------
\* the body of the selection loop has just run on set_element
Processed == pc = "set" /\ n_set > 0

TargetChipset == upper(args.chipset)

ImpliedName == IF TargetChipset = "HSW" THEN "RenderBasic" ELSE "TestOa"

WhitelistGiven == args.whitelist.given /\ args.whitelist.words # {}

HasConfigs(el) == Len(el.configs) > 0

KeyOf(el) == chipset_derive_hash(lower(TargetChipset), hw_config_hash(el))

InRegistry(el) == KeyOf(el) \in DOMAIN guids

\* set_element is the last entry of the resolved list
LastResolved == Len(sets) > 0 /\ sets[Len(sets)].set_element = set_element

\* the name passes the filters as the code applies them
PassesNameFilters(el) ==
    /\ el.symbol_name = ImpliedName
    /\ WhitelistGiven => el.symbol_name \in args.whitelist.words
    /\ el.symbol_name \notin args.blacklist.words

CountOf(cfgs, t) == Cardinality({i \in DOMAIN cfgs : cfgs[i].type = t})

\* C1: with --no-whitelist and neither --whitelist nor --blacklist, every set
\* of the target chipset that has a register_config and whose key is in the
\* registry is selected, whatever its symbol_name.
C1_NoWhitelistSelectsEverySet ==
    ( /\ Processed
      /\ args.no_whitelist /\ ~args.whitelist.given /\ ~args.blacklist.given
      /\ set_element.chipset = TargetChipset
      /\ HasConfigs(set_element)
      /\ InRegistry(set_element) )
    => LastResolved

\* C2: an explicit whitelist replaces the default filter: a set whose name is
\* in the whitelist and not in the blacklist (with register configs and a
\* registry hit) is selected even when it is not the default name, and no
\* resolved set has a name outside the whitelist.
C2_WhitelistReplacesDefault ==
    WhitelistGiven =>
        /\ ( /\ Processed
             /\ set_element.chipset = TargetChipset
             /\ set_element.symbol_name \in args.whitelist.words
             /\ set_element.symbol_name \notin args.blacklist.words
             /\ HasConfigs(set_element)
             /\ InRegistry(set_element) )
           => LastResolved
        /\ \A i \in DOMAIN sets : sets[i].name \in args.whitelist.words

C3_Defaults == ~args.whitelist.given /\ ~args.no_whitelist /\ ~args.blacklist.given

\* C3: with no whitelist, no --no-whitelist and no blacklist every resolved set
\* is named TestOa (RenderBasic on HSW), and a set of the target chipset with
\* any other name is passed over without a warning, without an abort and
\* without entering the resolved list.
C3_DefaultSelection ==
    /\ [](C3_Defaults => \A i \in DOMAIN sets : sets[i].name = ImpliedName)
    /\ [][ ( /\ C3_Defaults
             /\ pc = "set" /\ n_set' = n_set + 1
             /\ set_element'.chipset = TargetChipset
             /\ set_element'.symbol_name # ImpliedName )
           => (stderr' = stderr /\ sets' = sets /\ ~failed' /\ pc' = "set") ]_vars

C3_Witness ==
    /\ C3_Defaults
    /\ Processed /\ ~failed
    /\ arg = 2
    /\ set_element.chipset = TargetChipset
    /\ set_element.symbol_name # ImpliedName
    /\ HasConfigs(set_element) /\ InRegistry(set_element)
    /\ Len(sets) > 0

\* C4: no resolved set has a name of the blacklist, also when the name is in
\* the whitelist or is the default name; without --blacklist the blacklist is
\* empty: a set that passes the default and whitelist filters (with register
\* configs and a registry hit) is selected.
C4_BlacklistWins ==
    /\ \A i \in DOMAIN sets : sets[i].name \notin args.blacklist.words
    /\ ( /\ Processed
         /\ ~args.blacklist.given
         /\ set_element.chipset = TargetChipset
         /\ set_element.symbol_name = ImpliedName
         /\ WhitelistGiven => set_element.symbol_name \in args.whitelist.words
         /\ HasConfigs(set_element)
         /\ InRegistry(set_element) )
       => LastResolved

C4_Witness ==
    /\ Processed /\ ~failed
    /\ set_element.chipset = TargetChipset
    /\ set_element.symbol_name = ImpliedName
    /\ set_element.symbol_name \in args.whitelist.words
    /\ set_element.symbol_name \in args.blacklist.words
    /\ HasConfigs(set_element) /\ InRegistry(set_element)
    /\ sets = <<>>

\* C5: a set that passes the filters and has register configs but whose key is
\* not in the registry gets a warning and is not resolved, and the run goes
\* on; a set that passes them and whose key is in the registry is appended
\* whatever was skipped before; every resolved set carries the registry value
\* stored under its key.
C5_RegistryMissNonFatal ==
    /\ [](\A i \in DOMAIN sets :
            /\ InRegistry(sets[i].set_element)
            /\ sets[i].guid = guids[KeyOf(sets[i].set_element)])
    /\ [][ ( /\ pc = "set" /\ n_set' = n_set + 1
             /\ set_element'.chipset = TargetChipset
             /\ PassesNameFilters(set_element')
             /\ HasConfigs(set_element') )
           => IF InRegistry(set_element')
              THEN /\ Len(sets') = Len(sets) + 1
                   /\ SubSeq(sets', 1, Len(sets)) = sets
                   /\ sets'[Len(sets')].set_element = set_element'
                   /\ stderr' = stderr /\ ~failed'
              ELSE /\ sets' = sets
                   /\ stderr' = stderr + 1
                   /\ ~failed' /\ pc' = "set" ]_vars

C5_Witness ==
    /\ pc = "done" /\ ~failed
    /\ stderr > 0
    /\ Len(sets) > 0
    /\ set_element.chipset = TargetChipset
    /\ PassesNameFilters(set_element)
    /\ HasConfigs(set_element)
    /\ ~InRegistry(set_element)

WellTyped(cfgs, t) ==
    \A i \in DOMAIN cfgs : cfgs[i].type = t =>
        \A j \in DOMAIN cfgs[i].registers : cfgs[i].registers[j].type = t

\* the emission loop has just run its body on sets[mi]
Emitted == pc = "emit" /\ mi >= 1

HasArrays(idx) ==
    \A kind \in {"b_counter_config", "flex_eu_config", "mux_config"} :
        \E k \in DOMAIN c : c[k].array = kind /\ c[k].metric_set = idx

C6_Cardinality(well_typed_only) ==
    /\ Emitted =>
        LET cfgs == sets[mi].configs
            noa == CountOf(cfgs, "NOA")
            oa == CountOf(cfgs, "OA")
            flex == CountOf(cfgs, "FLEX")
        IN  /\ (noa # 1 \/ oa > 1 \/ flex > 1) => failed
            /\ (noa = 1 /\ oa = 0 /\ flex = 0 /\ (well_typed_only => WellTyped(cfgs, "NOA")))
               => /\ ~failed
                  /\ Len(c) >= 3
                  /\ c[Len(c) - 2] = [array |-> "b_counter_config", metric_set |-> mi, regs |-> <<>>]
                  /\ c[Len(c) - 1] = [array |-> "flex_eu_config", metric_set |-> mi, regs |-> <<>>]
                  /\ c[Len(c)].array = "mux_config" /\ c[Len(c)].metric_set = mi
    /\ \A idx \in DOMAIN sets : HasArrays(idx) =>
        /\ CountOf(sets[idx].configs, "NOA") = 1
        /\ CountOf(sets[idx].configs, "OA") <= 1
        /\ CountOf(sets[idx].configs, "FLEX") <= 1

\* C6 (as claimed): a resolved set with zero or several NOA blocks, or more
\* than one OA or FLEX block, aborts the run; one with exactly one NOA block
\* and no OA and FLEX block succeeds with empty b-counter and flex-EU arrays;
\* a set whose three arrays were emitted has one NOA, at most one OA and at
\* most one FLEX block.
C6_AsClaimed == C6_Cardinality(FALSE)

\* C6 (amended): as claimed, where the set with exactly one NOA block and no
\* OA and FLEX block succeeds provided every register of its NOA block has
\* type NOA.
C6_CardinalityOfConfigs == C6_Cardinality(TRUE)

C6_Witness ==
    /\ Emitted /\ ~failed
    /\ CountOf(sets[mi].configs, "NOA") = 1
    /\ CountOf(sets[mi].configs, "OA") = 0
    /\ CountOf(sets[mi].configs, "FLEX") = 0
    /\ Len(sets[mi].configs) = 1
    /\ HasArrays(mi)
    /\ c[Len(c) - 2].regs = <<>>
    /\ c[Len(c)].regs = <<[address |-> 1, value |-> 1]>>

WrongCardinality(cfgs) ==
    CountOf(cfgs, "NOA") # 1 \/ CountOf(cfgs, "OA") > 1 \/ CountOf(cfgs, "FLEX") > 1

\* C7: a set that passes the name filters and has a wrong cardinality of
\* register configs ends the run in abort, also when its registry lookup
\* misses (so the run never ends normally after it); a set without
\* register_config, or with a registry miss and a correct cardinality, never
\* aborts the run.
C7_PropagationPolicy ==
    /\ ( /\ pc = "done"
         /\ set_element # NoElement
         /\ set_element.chipset = TargetChipset
         /\ PassesNameFilters(set_element)
         /\ HasConfigs(set_element) )
       => ~WrongCardinality(set_element.configs)
    /\ ( /\ Processed
         /\ set_element.chipset = TargetChipset
         /\ PassesNameFilters(set_element)
         /\ \/ ~HasConfigs(set_element)
            \/ ~InRegistry(set_element) /\ ~WrongCardinality(set_element.configs) )
       => ~failed

\* C8: no resolved set has a chipset attribute other than the uppercased
\* --chipset, and a set element with another chipset attribute aborts the
\* run whatever the name filters would have done with it.
C8_ChipsetSoundness ==
    /\ \A i \in DOMAIN sets : sets[i].set_element.chipset = TargetChipset
    /\ (Processed /\ set_element.chipset # TargetChipset) => failed

C8_Witness ==
    /\ Processed /\ failed
    /\ set_element.chipset # TargetChipset
    /\ ~PassesNameFilters(set_element)
    /\ Len(sets) > 0

\* C9: after the load loop has processed the first gi guid elements the
\* mapping has a key exactly for the elements with a config_hash attribute,
\* each key holds the id of the last element that derives it, and once the
\* loop is over the mapping stays what the whole document gives.
C9_RegistryLoad ==
    LET with_hash == {i \in 1..gi : "config_hash" \in DOMAIN guids_xml[i]}
        key(i) == chipset_derive_hash(guids_xml[i].chipset, guids_xml[i].config_hash)
        last(k) == CHOOSE i \in with_hash :
                       key(i) = k /\ \A j \in with_hash : key(j) = k => j <= i
    IN  /\ DOMAIN guids = {key(i) : i \in with_hash}
        /\ \A k \in DOMAIN guids : guids[k] = guids_xml[last(k)].id
        /\ pc # "guids" => gi = Len(guids_xml)

C9_Witness ==
    /\ pc = "done"
    /\ Len(guids_xml) = 2
    /\ "config_hash" \in DOMAIN guids_xml[1]
    /\ "config_hash" \in DOMAIN guids_xml[2]
    /\ guids_xml[1].chipset = guids_xml[2].chipset
    /\ guids_xml[1].config_hash = guids_xml[2].config_hash
    /\ guids_xml[1].id # guids_xml[2].id
    /\ Len(sets) > 0

\* C10: at the end of a run that does not abort the b-counter, flex-EU and mux
\* arrays of each resolved set have been emitted exactly once, in the order
\* the sets were resolved.
C10_EmittedExactlyOnce ==
    (pc = "done" /\ ~failed) =>
        /\ Len(c) = 3 * Len(sets)
        /\ \A i \in DOMAIN sets :
            /\ c[3 * i - 2].array = "b_counter_config" /\ c[3 * i - 2].metric_set = i
            /\ c[3 * i - 1].array = "flex_eu_config" /\ c[3 * i - 1].metric_set = i
            /\ c[3 * i].array = "mux_config" /\ c[3 * i].metric_set = i

====
